---- MODULE Spec2Model ----
(***************************************************************************)
(* Sensitivity mapping (autofit/non_linear/grid/sensitivity.py).           *)
(*                                                                         *)
(* A Sensitivity run tiles the unit hypercube of the perturbation model,   *)
(* builds one Job per grid coordinate, hands the Jobs to the parallel      *)
(* executor and collects what the executor yields.                         *)
(*                                                                         *)
(* Unit-interval values are fixed-point numbers counted in 1/Scale: the    *)
(* integer u stands for u/Scale, so Scale itself stands for 1.0.           *)
(***************************************************************************)
EXTENDS Integers, Sequences, FiniteSets, TLC

VARIABLES
    perturbation_model,  \* self.perturbation_model: [prior_tuples : Seq([path, prior])]
    step_size,           \* self.step_size: [kind : "float" | "tuple", value]
    number_of_cores,     \* self.number_of_cores
    search,              \* self.search.paths of the template search
    fit_failure,         \* which fit of which Job the search capability fails, if any
    pc,                  \* position of Sensitivity.run
    jobs,                \* Jobs yielded so far by _make_jobs
    image_calls,         \* arguments image_function has been invoked with, in order
    job_queue,           \* executor: the queue of the submitted Jobs not yet taken
    processes,           \* executor: the state of each worker
    result_queue,        \* executor: outcomes reported, not yet yielded to run
    results,             \* the list that run accumulates and returns
    executed,            \* history: for each Job, the outcomes its executions produced
    fits,                \* history: for each Job, the fits its executions invoked
    lists_out,           \* the value of the _lists property once it has been read
    labels_out,          \* the labels yielded by the _labels property once read
    error,               \* the error a run has met: "none", "configuration", "executor"
    job_result,          \* a JobResult whose log_likelihood_difference is read
    difference_out,      \* the value of log_likelihood_difference once read
    pipelines,           \* the Pipeline objects held under the names "p" and "q"
    pipeline_call,       \* the last Pipeline construction or composition and its outcome
    pipeline_pc,         \* position of Pipeline.run_function
    phase_index,         \* run_function: the number of phases already run
    collection,          \* run_function: its ResultsCollection
    func_calls,          \* run_function: the calls of func so far, with what they saw
    aggregator_phases,   \* AbstractAggregator.phases
    filter_call,         \* the last call of AbstractAggregator.filter and its outcome
    add_calls,           \* history: the calls of add on a ResultsCollection used on its own
    pickle_file,         \* the file at the phase's optimizer pickle path, if there is one
    phase_optimizer,     \* self.optimizer of the phase
    pickle_call          \* the last call of assert_and_save_pickle and its outcome

vars == <<perturbation_model, step_size, number_of_cores, search, fit_failure,
          pc, jobs, image_calls, job_queue, processes, result_queue, results,
          executed, fits, lists_out, labels_out, error, job_result, difference_out,
          pipelines, pipeline_call, pipeline_pc, phase_index, collection, func_calls,
          aggregator_phases, filter_call, add_calls,
          pickle_file, phase_optimizer, pickle_call>>

\* The state of a Sensitivity run.
sensitivity_vars ==
    <<perturbation_model, step_size, number_of_cores, search, fit_failure,
      pc, jobs, image_calls, job_queue, processes, result_queue, results,
      executed, fits, lists_out, labels_out, error>>

\* The state of a JobResult read on its own.
result_vars == <<job_result, difference_out>>

\* The state of the pipelines.
pipeline_vars ==
    <<pipelines, pipeline_call, pipeline_pc, phase_index, collection, func_calls>>

\* The state of an aggregator.
aggregator_vars == <<aggregator_phases, filter_call>>

\* The state outside the Sensitivity run.
\* The state of a ResultsCollection used on its own, with collection.
collection_vars == <<add_calls>>

\* The state of a phase and its optimizer pickle.
pickle_vars == <<pickle_file, phase_optimizer, pickle_call>>

other_vars ==
    <<result_vars, pipeline_vars, aggregator_vars, collection_vars, pickle_vars>>

config == <<perturbation_model, step_size, number_of_cores, search, fit_failure>>

----------------------------------------------------------------------------
(* Bounds *)

Scale == 4
MaxDim == 2
MaxJobs == 4
MaxCores == 2
LiveMaxJobs == 2
GridMaxDim == 3
MaxPhases == 3
MaxAdds == 3
MaxOptimizers == 5
MaxAggregatorPhases == 3
MaxPredicates == 2
MaxLogLikelihood == 5
MaxGrid == 16

----------------------------------------------------------------------------
(* External capabilities: priors, models, searches *)

\* The paths of the dimensions of a perturbation model, in declared order.
PathNames == <<"x", "y", "z", "w">>

\* A prior maps the unit interval linearly onto [lower, upper].
Priors == {[lower |-> 0, upper |-> 2], [lower |-> 1, upper |-> 1]}

\* prior.value_for(unit_value): the physical value, counted in 1/Scale.
value_for(prior, unit) == prior.lower * Scale + unit * (prior.upper - prior.lower)

\* The perturbation models with D dimensions.
PerturbationModels(D) ==
    { [prior_tuples |-> [d \in 1..D |-> [path |-> PathNames[d], prior |-> ps[d]]]] :
        ps \in [1..D -> Priors] }

prior_count(model) == Len(model.prior_tuples)

\* model.instance_from_unit_vector(vector): each component through its prior.
instance_from_unit_vector(model, vector) ==
    [d \in 1..Len(vector) |-> value_for(model.prior_tuples[d].prior, vector[d])]

\* str(value) of a physical value: integer part, point, fraction in 1/Scale.
FormatValue(v) == ToString(v \div Scale) \o "." \o ToString(v % Scale)

\* "_".join(strings)
RECURSIVE Join(_)
Join(strings) ==
    IF Len(strings) = 0 THEN ""
    ELSE IF Len(strings) = 1 THEN strings[1]
    ELSE strings[1] \o "_" \o Join(Tail(strings))

\* Paths(name, tag, path_prefix, remove_files)
Paths(name, tag, path_prefix, remove_files) ==
    [name |-> name, tag |-> tag, path_prefix |-> path_prefix,
     remove_files |-> remove_files]

\* The template search's paths, with its non_linear_tag.
SearchPaths ==
    { [name |-> "s", tag |-> t, path_prefix |-> "out", remove_files |-> FALSE,
       non_linear_tag |-> "nl"] : t \in {"t"} }

\* search.copy_with_paths(paths): an otherwise identical search on new paths.
copy_with_paths(template, paths) == paths

\* search.fit(model, analysis): the Result of a fit that does not fail.
Fit(search_paths, model, analysis) ==
    [search |-> search_paths, model |-> model, analysis |-> analysis]

----------------------------------------------------------------------------
(* Grid enumeration *)

\* The per-dimension step sizes of a step size configuration.
StepTuple(no_dimensions, step) ==
    IF step.kind = "float" THEN [d \in 1..no_dimensions |-> step.value]
    ELSE step.value

\* A step size is valid when 0 < step <= 1.
StepValid(step) == step >= 1 /\ step <= Scale

\* make_lists rejects a step size that is invalid in some dimension.
make_lists_raises(no_dimensions, step) ==
    \E d \in 1..no_dimensions : ~StepValid(StepTuple(no_dimensions, step)[d])

RECURSIVE make_lists_tuple(_, _)
make_lists_tuple(no_dimensions, steps) ==
    IF no_dimensions = 0 THEN << <<>> >>
    ELSE LET sub_lists == make_lists_tuple(no_dimensions - 1, Tail(steps))
             step == steps[1]
             n == Scale \div step
             m == Len(sub_lists)
         IN  [k \in 1..(n * m) |->
                 << (((k - 1) \div m) + 1) * step >> \o sub_lists[((k - 1) % m) + 1]]

\* make_lists(no_dimensions, step_size)
make_lists(no_dimensions, step) ==
    make_lists_tuple(no_dimensions, StepTuple(no_dimensions, step))

\* _lists with self.step_size left out of the call, so that make_lists uses
\* one step for the whole unit interval.
_lists_without_step_size ==
    make_lists(prior_count(perturbation_model), [kind |-> "float", value |-> Scale])

\* _lists with one dimension too few.
_lists_fewer_dimensions == make_lists(prior_count(perturbation_model) - 1, step_size)

\* Sensitivity._lists, when make_lists raises.
_lists_raises == make_lists_raises(prior_count(perturbation_model), step_size)

\* _lists using the first step size for every dimension.
_lists_first_step_only ==
    make_lists(prior_count(perturbation_model),
               [kind |-> "float",
                value |-> StepTuple(prior_count(perturbation_model), step_size)[1]])

\* Sensitivity._lists
_lists == make_lists(prior_count(perturbation_model), step_size)

\* The label built from the unit values, without the prior's transform.
label_for_unit_value(list_) ==
    Join([d \in 1..Len(list_) |->
            perturbation_model.prior_tuples[d].path \o "_" \o FormatValue(list_[d])])

\* The label of one hypercube vector (body of the loop of Sensitivity._labels).
label_for(list_) ==
    Join([d \in 1..Len(list_) |->
            perturbation_model.prior_tuples[d].path \o "_" \o
            FormatValue(value_for(perturbation_model.prior_tuples[d].prior, list_[d]))])

\* Sensitivity._labels
_labels == LET lists == _lists IN [i \in 1..Len(lists) |-> label_for(lists[i])]

\* Sensitivity._perturbation_instances
_perturbation_instances ==
    LET lists == _lists
    IN  [i \in 1..Len(lists) |-> instance_from_unit_vector(perturbation_model, lists[i])]

\* Sensitivity._search_instance(name_path)
_search_instance(name_path) ==
    copy_with_paths(search,
        Paths(name_path, search.tag, search.path_prefix, search.remove_files))

\* Sensitivity._searches
_searches ==
    LET labels == _labels
    IN  [i \in 1..Len(labels) |->
            _search_instance(search.name \o "/" \o search.tag \o "/" \o
                             search.non_linear_tag \o "/" \o labels[i])]

----------------------------------------------------------------------------
(* Jobs *)

\* Job.__init__ giving the perturbed search the paths of the baseline search.
Job_without_discriminator(analysis, model, perturbation, search_) ==
    [analysis |-> analysis, model |-> model, perturbation_model |-> perturbation,
     search |-> search_,
     perturbed_search |-> copy_with_paths(search_,
         Paths(search_.name, search_.tag, search_.path_prefix,
               search_.remove_files))]

\* Job.__init__
Job(analysis, model, perturbation, search_) ==
    [analysis |-> analysis, model |-> model, perturbation_model |-> perturbation,
     search |-> search_,
     perturbed_search |-> copy_with_paths(search_,
         Paths(search_.name, search_.tag \o "[perturbed]", search_.path_prefix,
               search_.remove_files))]

\* JobResult.__init__
JobResult(result, perturbed_result) ==
    [result |-> result, perturbed_result |-> perturbed_result]

\* JobResult.log_likelihood_difference, with the operands the other way round.
log_likelihood_difference_reversed(job_result_) ==
    job_result_.result.log_likelihood - job_result_.perturbed_result.log_likelihood

\* JobResult.log_likelihood_difference
log_likelihood_difference(job_result_) ==
    job_result_.perturbed_result.log_likelihood - job_result_.result.log_likelihood

\* What the executor reports for a Job whose perform raised.
FailureMarker == [failure |-> "fit failed"]

\* The i-th Job yielded by Sensitivity._make_jobs, and the composite instance
\* image_function is called with for it.
CompositeInstance(i) ==
    [model |-> "instance", perturbation |-> _perturbation_instances[i]]

image_function(instance) == [image_of |-> instance]

analysis_class(image) == [image |-> image]

MadeJob(i) ==
    LET job_with(instance, search_) ==
            Job(analysis_class(image_function(instance)),
                "model", perturbation_model, search_)
    IN  \* the instance and the search of the Job, each evaluated once
        CHOOSE job \in {job_with(instance, search_) :
                            instance \in {CompositeInstance(i)},
                            search_ \in {_searches[i]}} : TRUE

NoFailure == [job |-> 0, fit |-> "none"]

Fails(j, which) == fit_failure.job = j /\ fit_failure.fit = which

IdleProcess == [job |-> 0, at |-> "idle", result |-> <<>>]

----------------------------------------------------------------------------
(* The parallel executor: Process.run_jobs *)

\* A worker reports the outcome of the Job it holds and becomes idle again.
Report(w, outcome) ==
    /\ result_queue' = Append(result_queue, outcome)
    /\ executed' = [executed EXCEPT ![processes[w].job] = Append(@, outcome)]
    /\ processes' = [processes EXCEPT ![w] = IdleProcess]

\* The iterable run_jobs returns ends once every submitted Job has been
\* taken, has reported, and its outcome has been yielded.
Exhausted ==
    /\ job_queue = <<>>
    /\ \A w \in DOMAIN processes : processes[w].at = "idle"
    /\ result_queue = <<>>

\* run_jobs has drawn every Job from the generator: it starts its workers.
run_jobs ==
    /\ pc = "submitting"
    /\ ~_lists_raises
    /\ Len(jobs) = Len(_lists)
    /\ job_queue' = [i \in 1..Len(jobs) |-> i]
    /\ processes' = [w \in 1..number_of_cores |-> IdleProcess]
    /\ pc' = "collecting"
    /\ UNCHANGED <<config, jobs, image_calls, result_queue, results, executed, fits,
                   lists_out, labels_out, error, other_vars>>

\* An idle worker takes the next Job from the queue.
process_get(w) ==
    /\ pc = "collecting"
    /\ processes[w].at = "idle"
    /\ job_queue # <<>>
    /\ job_queue' = Tail(job_queue)
    /\ processes' = [processes EXCEPT ![w] =
            [job |-> Head(job_queue), at |-> "baseline", result |-> <<>>]]
    /\ UNCHANGED <<config, pc, jobs, image_calls, result_queue, results, executed, fits,
                   lists_out, labels_out, error, other_vars>>

----------------------------------------------------------------------------
(* Job.perform, run by worker w *)

\* perform catching the failure of the baseline fit and going on to the
\* perturbed fit.
perform_baseline_ignores_failure(w) ==
    /\ pc = "collecting"
    /\ processes[w].at = "baseline"
    /\ LET j == processes[w].job
           job == jobs[j]
       IN  processes' = [processes EXCEPT ![w] =
               [job |-> j, at |-> "perturbed",
                result |-> IF Fails(j, "baseline") THEN << FailureMarker >>
                           ELSE << Fit(job.search, [model |-> job.model],
                                       job.analysis) >>]]
    /\ fits' = [fits EXCEPT ![processes[w].job] = Append(@, "baseline")]
    /\ UNCHANGED <<config, pc, jobs, image_calls, job_queue, result_queue, results,
                   executed, lists_out, labels_out, error, other_vars>>

\* The baseline fit: self.search.fit(model, self.analysis).
perform_baseline(w) ==
    /\ pc = "collecting"
    /\ processes[w].at = "baseline"
    /\ LET j == processes[w].job
           job == jobs[j]
       IN  IF Fails(j, "baseline")
           THEN Report(w, FailureMarker)
           ELSE /\ processes' = [processes EXCEPT ![w] =
                       [job |-> j, at |-> "perturbed",
                        result |-> << Fit(job.search, [model |-> job.model],
                                          job.analysis) >>]]
                /\ UNCHANGED <<result_queue, executed>>
    /\ fits' = [fits EXCEPT ![processes[w].job] = Append(@, "baseline")]
    /\ UNCHANGED <<config, pc, jobs, image_calls, job_queue, results,
                   lists_out, labels_out, error, other_vars>>

\* perform keeping the baseline result in a place the workers share: the
\* JobResult takes the baseline result of another worker that holds one.
perform_perturbed_shared_result(w) ==
    /\ pc = "collecting"
    /\ processes[w].at = "perturbed"
    /\ LET j == processes[w].job
           job == jobs[j]
           holders == {v \in DOMAIN processes : v # w /\ processes[v].result # <<>>}
           from == IF holders = {} THEN w ELSE CHOOSE v \in holders : TRUE
       IN  IF Fails(j, "perturbed")
           THEN Report(w, FailureMarker)
           ELSE Report(w, JobResult(
                    processes[from].result[1],
                    Fit(job.perturbed_search,
                        [perturbation |-> job.perturbation_model, model |-> job.model],
                        job.analysis)))
    /\ fits' = [fits EXCEPT ![processes[w].job] = Append(@, "perturbed")]
    /\ UNCHANGED <<config, pc, jobs, image_calls, job_queue, results,
                   lists_out, labels_out, error, other_vars>>

\* perform returning the two fit results in each other's place.
perform_perturbed_swapped(w) ==
    /\ pc = "collecting"
    /\ processes[w].at = "perturbed"
    /\ LET j == processes[w].job
           job == jobs[j]
       IN  IF Fails(j, "perturbed")
           THEN Report(w, FailureMarker)
           ELSE Report(w, JobResult(
                    Fit(job.perturbed_search,
                        [perturbation |-> job.perturbation_model, model |-> job.model],
                        job.analysis),
                    processes[w].result[1]))
    /\ fits' = [fits EXCEPT ![processes[w].job] = Append(@, "perturbed")]
    /\ UNCHANGED <<config, pc, jobs, image_calls, job_queue, results,
                   lists_out, labels_out, error, other_vars>>

\* perform catching the failure of the perturbed fit and returning a
\* JobResult that holds the baseline result alone.
perform_perturbed_keeps_baseline(w) ==
    /\ pc = "collecting"
    /\ processes[w].at = "perturbed"
    /\ LET j == processes[w].job
           job == jobs[j]
       IN  IF Fails(j, "perturbed")
           THEN Report(w, JobResult(processes[w].result[1], <<>>))
           ELSE Report(w, JobResult(
                    processes[w].result[1],
                    Fit(job.perturbed_search,
                        [perturbation |-> job.perturbation_model, model |-> job.model],
                        job.analysis)))
    /\ fits' = [fits EXCEPT ![processes[w].job] = Append(@, "perturbed")]
    /\ UNCHANGED <<config, pc, jobs, image_calls, job_queue, results,
                   lists_out, labels_out, error, other_vars>>

\* The perturbed fit and the JobResult that perform returns.
perform_perturbed(w) ==
    /\ pc = "collecting"
    /\ processes[w].at = "perturbed"
    /\ LET j == processes[w].job
           job == jobs[j]
       IN  IF Fails(j, "perturbed")
           THEN Report(w, FailureMarker)
           ELSE Report(w, JobResult(
                    processes[w].result[1],
                    Fit(job.perturbed_search,
                        [perturbation |-> job.perturbation_model, model |-> job.model],
                        job.analysis)))
    /\ fits' = [fits EXCEPT ![processes[w].job] = Append(@, "perturbed")]
    /\ UNCHANGED <<config, pc, jobs, image_calls, job_queue, results,
                   lists_out, labels_out, error, other_vars>>

----------------------------------------------------------------------------
(* Sensitivity.run *)

\* run is called: it passes the generator _make_jobs() to Process.run_jobs.
run_call ==
    /\ pc = "constructed"
    /\ pc' = "submitting"
    /\ UNCHANGED <<config, jobs, image_calls, job_queue, processes, result_queue,
                   results, executed, fits, lists_out, labels_out, error, other_vars>>

\* run swallowing the error of the generator and returning what it has.
run_swallows_configuration_error ==
    /\ pc = "submitting"
    /\ _lists_raises
    /\ pc' = "returned"
    /\ error' = "configuration"
    /\ UNCHANGED <<config, jobs, image_calls, job_queue, processes, result_queue,
                   results, executed, fits, lists_out, labels_out, other_vars>>

\* The first pull on the generator _make_jobs reads _lists, make_lists rejects
\* the step size, and the error leaves run.
run_raises_configuration_error ==
    /\ pc = "submitting"
    /\ _lists_raises
    /\ pc' = "raised"
    /\ error' = "configuration"
    /\ UNCHANGED <<config, jobs, image_calls, job_queue, processes, result_queue,
                   results, executed, fits, lists_out, labels_out, other_vars>>

\* _make_jobs pairing the instances with the searches taken from the other
\* end of their sequence.
_make_jobs_out_of_step ==
    /\ pc = "submitting"
    /\ ~_lists_raises
    /\ Len(jobs) < Len(_lists)
    /\ LET i == Len(jobs) + 1
       IN  /\ image_calls' = Append(image_calls, CompositeInstance(i))
           /\ jobs' = Append(jobs,
                  Job(analysis_class(image_function(CompositeInstance(i))),
                      "model", perturbation_model, _searches[Len(_lists) + 1 - i]))
    /\ UNCHANGED <<config, pc, job_queue, processes, result_queue, results, executed, fits,
                   lists_out, labels_out, error, other_vars>>

\* _make_jobs synthesizing one image for each of the two fits of a Job.
_make_jobs_two_images ==
    /\ pc = "submitting"
    /\ ~_lists_raises
    /\ Len(jobs) < Len(_lists)
    /\ LET i == Len(jobs) + 1
       IN  /\ image_calls' = image_calls \o <<CompositeInstance(i), CompositeInstance(i)>>
           /\ jobs' = Append(jobs, MadeJob(i))
    /\ UNCHANGED <<config, pc, job_queue, processes, result_queue, results, executed, fits,
                   lists_out, labels_out, error, other_vars>>

\* One iteration of the loop of _make_jobs.
_make_jobs ==
    /\ pc = "submitting"
    /\ ~_lists_raises
    /\ Len(jobs) < Len(_lists)
    /\ LET i == Len(jobs) + 1
       IN  /\ image_calls' = Append(image_calls, CompositeInstance(i))
           /\ jobs' = Append(jobs, MadeJob(i))
    /\ UNCHANGED <<config, pc, job_queue, processes, result_queue, results, executed, fits,
                   lists_out, labels_out, error, other_vars>>

\* run catching the executor's error and returning the results it has.
run_swallows_executor_error ==
    /\ pc = "collecting"
    /\ pc' = "returned"
    /\ error' = "executor"
    /\ UNCHANGED <<config, jobs, image_calls, job_queue, processes, result_queue,
                   results, executed, fits, lists_out, labels_out, other_vars>>

\* The executor fails as a whole (a worker crashes, the pool is exhausted)
\* while run waits on its iterable: the error leaves run.
run_raises_executor_error ==
    /\ pc = "collecting"
    /\ pc' = "raised"
    /\ error' = "executor"
    /\ UNCHANGED <<config, jobs, image_calls, job_queue, processes, result_queue,
                   results, executed, fits, lists_out, labels_out, other_vars>>

\* The loop of run assigning the yielded result instead of appending it.
run_append_overwrites ==
    /\ pc = "collecting"
    /\ result_queue # <<>>
    /\ results' = << Head(result_queue) >>
    /\ result_queue' = Tail(result_queue)
    /\ UNCHANGED <<config, pc, jobs, image_calls, job_queue, processes, executed, fits,
                   lists_out, labels_out, error, other_vars>>

\* The loop of run handing the failed Job to the executor again when the
\* yielded result is a failure.
run_append_resubmits_failed ==
    /\ pc = "collecting"
    /\ result_queue # <<>>
    /\ results' = Append(results, Head(result_queue))
    /\ result_queue' = Tail(result_queue)
    /\ job_queue' = IF Head(result_queue) = FailureMarker
                    THEN Append(job_queue, fit_failure.job)
                    ELSE job_queue
    /\ UNCHANGED <<config, pc, jobs, image_calls, processes, executed, fits,
                   lists_out, labels_out, error, other_vars>>

\* One iteration of the loop of run: the next yielded result is appended.
run_append ==
    /\ pc = "collecting"
    /\ result_queue # <<>>
    /\ results' = Append(results, Head(result_queue))
    /\ result_queue' = Tail(result_queue)
    /\ UNCHANGED <<config, pc, jobs, image_calls, job_queue, processes, executed, fits,
                   lists_out, labels_out, error, other_vars>>

\* run returning from inside its loop, after the first result.
run_return_early ==
    /\ pc = "collecting"
    /\ (Exhausted \/ Len(results) >= 1)
    /\ pc' = "returned"
    /\ UNCHANGED <<config, jobs, image_calls, job_queue, processes, result_queue,
                   results, executed, fits, lists_out, labels_out, error, other_vars>>

\* run returning only once no collected outcome is a failure.
run_return_requires_success ==
    /\ pc = "collecting"
    /\ Exhausted
    /\ \A i \in DOMAIN results : results[i] # FailureMarker
    /\ pc' = "returned"
    /\ UNCHANGED <<config, jobs, image_calls, job_queue, processes, result_queue,
                   results, executed, fits, lists_out, labels_out, error, other_vars>>

\* The iterable is exhausted: run returns results.
run_return ==
    /\ pc = "collecting"
    /\ Exhausted
    /\ pc' = "returned"
    /\ UNCHANGED <<config, jobs, image_calls, job_queue, processes, result_queue,
                   results, executed, fits, lists_out, labels_out, error, other_vars>>

----------------------------------------------------------------------------
(* Specification of a run *)

\* step_size: one float for every dimension, or one float per dimension.
StepSizesOver(D, values) ==
    { [kind |-> "float", value |-> s] : s \in values } \cup
    { [kind |-> "tuple", value |-> t] : t \in [1..D -> values] }

ValidStepSizes(D) == StepSizesOver(D, 1..Scale)

\* The step sizes of a run: every float, valid or not, and the tuples with an
\* invalid step; the valid per-dimension grids are those of ValidStepSizes.
StepSizes(D) ==
    { step \in StepSizesOver(D, 0..(Scale + 1)) :
        step.kind = "float" \/ make_lists_raises(D, step) }

\* The number of grid coordinates of the run.
GridSize == IF _lists_raises THEN 0 ELSE Len(_lists)

\* ResultsCollection.__init__
ResultsCollection == [result_list |-> <<>>, result_dict |-> [n \in {} |-> 0]]

\* No JobResult is under test.
ResultUnused ==
    /\ job_result = <<>>
    /\ difference_out = <<>>

\* No pipeline exists.
PipelineUnused ==
    /\ pipelines = [slot \in {"p", "q"} |-> <<>>]
    /\ pipeline_call = [op |-> "none", left |-> <<>>, right |-> <<>>, raised |-> FALSE]
    /\ pipeline_pc = "idle"
    /\ phase_index = 0
    /\ collection = ResultsCollection
    /\ func_calls = <<>>

\* No ResultsCollection is used on its own.
CollectionUnused == add_calls = <<>>

\* No phase saves its optimizer.
NoCall == [optimizer |-> 0, before |-> <<>>, raised |-> FALSE]

PickleUnused ==
    /\ pickle_file = <<>>
    /\ phase_optimizer = 0
    /\ pickle_call = NoCall

\* No aggregator exists.
AggregatorUnused ==
    /\ aggregator_phases = <<>>
    /\ filter_call = <<>>

OtherInit ==
    /\ ResultUnused
    /\ PipelineUnused
    /\ CollectionUnused
    /\ PickleUnused
    /\ AggregatorUnused

FitFailures(n) ==
    {NoFailure} \cup { [job |-> j, fit |-> f] : j \in 1..n, f \in {"baseline", "perturbed"} }

NotRead == [read |-> FALSE, value |-> <<>>]

Init ==
    /\ \E D \in 1..MaxDim :
         /\ perturbation_model \in PerturbationModels(D)
         /\ step_size \in StepSizes(D)
    /\ GridSize <= MaxJobs
    /\ number_of_cores \in 1..MaxCores
    /\ search \in SearchPaths
    /\ fit_failure \in FitFailures(GridSize)
    /\ pc = "constructed"
    /\ jobs = <<>>
    /\ image_calls = <<>>
    /\ job_queue = <<>>
    /\ processes = <<>>
    /\ result_queue = <<>>
    /\ results = <<>>
    /\ executed = [j \in 1..GridSize |-> <<>>]
    /\ fits = [j \in 1..GridSize |-> <<>>]
    /\ lists_out = NotRead
    /\ labels_out = NotRead
    /\ error = "none"
    /\ OtherInit

Next ==
    \/ run_call
    \/ run_raises_configuration_error
    \/ _make_jobs
    \/ run_jobs
    \/ \E w \in DOMAIN processes : process_get(w)
    \/ \E w \in DOMAIN processes : perform_baseline(w)
    \/ \E w \in DOMAIN processes : perform_perturbed(w)
    \/ run_append
    \/ run_raises_executor_error
    \/ run_return

Spec == Init /\ [][Next]_vars

TypeOK ==
    /\ pc \in {"constructed", "submitting", "collecting", "returned", "raised"}
    /\ Len(jobs) <= GridSize
    /\ Len(results) <= Len(jobs)

----------------------------------------------------------------------------
(* Specification of the grid properties, read on their own *)

\* The _lists property is read.
read_lists ==
    /\ pc = "properties"
    /\ lists_out' = [read |-> TRUE, value |-> _lists]
    /\ UNCHANGED <<config, pc, jobs, image_calls, job_queue, processes, result_queue,
                   results, executed, fits, labels_out, error, other_vars>>

\* The _labels generator is drained.
read_labels ==
    /\ pc = "properties"
    /\ labels_out' = [read |-> TRUE, value |-> _labels]
    /\ UNCHANGED <<config, pc, jobs, image_calls, job_queue, processes, result_queue,
                   results, executed, fits, lists_out, error, other_vars>>

GridInit ==
    /\ \E D \in 1..GridMaxDim :
         /\ perturbation_model \in PerturbationModels(D)
         /\ step_size \in ValidStepSizes(D)
    /\ GridSize <= MaxGrid
    /\ number_of_cores = 2
    /\ search \in SearchPaths
    /\ fit_failure = NoFailure
    /\ pc = "properties"
    /\ jobs = <<>>
    /\ image_calls = <<>>
    /\ job_queue = <<>>
    /\ processes = <<>>
    /\ result_queue = <<>>
    /\ results = <<>>
    /\ executed = <<>>
    /\ fits = <<>>
    /\ lists_out = NotRead
    /\ labels_out = NotRead
    /\ error = "none"
    /\ OtherInit

GridNext == read_lists \/ read_labels

GridSpec == GridInit /\ [][GridNext]_vars

----------------------------------------------------------------------------
(* Specification of a JobResult, read on its own *)

\* No Sensitivity run is under way.
SensitivityUnused ==
    /\ perturbation_model = [prior_tuples |-> <<>>]
    /\ step_size = [kind |-> "float", value |-> Scale]
    /\ number_of_cores = 2
    /\ search \in SearchPaths
    /\ fit_failure = NoFailure
    /\ pc = "unused"
    /\ jobs = <<>>
    /\ image_calls = <<>>
    /\ job_queue = <<>>
    /\ processes = <<>>
    /\ result_queue = <<>>
    /\ results = <<>>
    /\ executed = <<>>
    /\ fits = <<>>
    /\ lists_out = NotRead
    /\ labels_out = NotRead
    /\ error = "none"

\* The log likelihoods a Result may carry.
LogLikelihoods == (0 - MaxLogLikelihood)..MaxLogLikelihood

\* The log_likelihood_difference property is read.
read_log_likelihood_difference ==
    /\ job_result # <<>>
    /\ difference_out' = << log_likelihood_difference(job_result[1]) >>
    /\ UNCHANGED <<sensitivity_vars, job_result, pipeline_vars, aggregator_vars,
                   collection_vars, pickle_vars>>

ResultInit ==
    /\ SensitivityUnused
    /\ \E baseline \in LogLikelihoods, perturbed \in LogLikelihoods :
           job_result = << JobResult([log_likelihood |-> baseline],
                                     [log_likelihood |-> perturbed]) >>
    /\ difference_out = <<>>
    /\ PipelineUnused
    /\ CollectionUnused
    /\ PickleUnused
    /\ AggregatorUnused

ResultNext == read_log_likelihood_difference

ResultSpec == ResultInit /\ [][ResultNext]_vars

----------------------------------------------------------------------------
(* Pipelines (autofit/tools/pipeline.py) *)

\* The phases pipelines are made of.
Phases == {[phase_name |-> "a"], [phase_name |-> "b"], [phase_name |-> "c"]}

PhaseSeqs == UNION {[1..n -> Phases] : n \in 0..MaxPhases}

\* The duplicate check comparing against one name fewer.
DuplicatePhaseNames_off_by_one(phases) ==
    Cardinality({phases[i].phase_name : i \in DOMAIN phases}) < Len(phases) - 1

\* len(set(phase_names)) < len(phase_names)
DuplicatePhaseNames(phases) ==
    Cardinality({phases[i].phase_name : i \in DOMAIN phases}) < Len(phases)

\* Pipeline.__init__: the new pipeline, or the PipelineException it raises.
Pipeline_init(pipeline_name, phases) ==
    IF DuplicatePhaseNames(phases)
    THEN [raised |-> TRUE, value |-> <<>>]
    ELSE [raised |-> FALSE,
          value |-> << [pipeline_name |-> pipeline_name, phases |-> phases] >>]

\* Pipeline.__add__
Pipeline_add(self, other) ==
    Pipeline_init(self.pipeline_name \o " + " \o other.pipeline_name,
                  self.phases \o other.phases)

\* ResultsCollection.add appending the result before it looks for the name.
ResultsCollection_add_appends_first(results_, phase_name, result) ==
    IF phase_name \in DOMAIN results_.result_dict
    THEN [raised |-> TRUE,
          value |-> [result_list |-> Append(results_.result_list, result),
                     result_dict |-> results_.result_dict]]
    ELSE [raised |-> FALSE,
          value |-> [result_list |-> Append(results_.result_list, result),
                     result_dict |->
                         [n \in DOMAIN results_.result_dict \cup {phase_name} |->
                             IF n = phase_name THEN result
                             ELSE results_.result_dict[n]]]]

\* ResultsCollection.add: the collection afterwards, or the exception raised.
ResultsCollection_add(results_, phase_name, result) ==
    IF phase_name \in DOMAIN results_.result_dict
    THEN [raised |-> TRUE, value |-> results_]
    ELSE [raised |-> FALSE,
          value |-> [result_list |-> Append(results_.result_list, result),
                     result_dict |->
                         [n \in DOMAIN results_.result_dict \cup {phase_name} |->
                             IF n = phase_name THEN result
                             ELSE results_.result_dict[n]]]]

\* The caller's function: its result tells the phase and how many previous
\* results the collection held when it was called.
func(phase, results_) ==
    [phase |-> phase, seen |-> Len(results_.result_list)]

\* A pipeline is constructed and kept under the name slot; each name is
\* bound once.
new_pipeline(slot, phases) ==
    /\ pipeline_pc = "idle"
    /\ pipelines[slot] = <<>>
    /\ LET made == Pipeline_init(slot, phases)
       IN  /\ pipeline_call' = [op |-> "init", left |-> phases, right |-> <<>>,
                                raised |-> made.raised]
           /\ pipelines' = IF made.raised THEN pipelines
                           ELSE [pipelines EXCEPT ![slot] = made.value]
    /\ UNCHANGED <<sensitivity_vars, result_vars, aggregator_vars, collection_vars,
                   pickle_vars,
                   pipeline_pc, phase_index, collection, func_calls>>

\* p = p + q
add_pipelines ==
    /\ pipeline_pc = "idle"
    /\ pipelines["p"] # <<>>
    /\ pipelines["q"] # <<>>
    /\ pipelines["q"][1].phases # <<>>
    /\ Len(pipelines["p"][1].phases) + Len(pipelines["q"][1].phases) <= MaxPhases
    /\ LET made == Pipeline_add(pipelines["p"][1], pipelines["q"][1])
       IN  /\ pipeline_call' = [op |-> "add", left |-> pipelines["p"][1].phases,
                                right |-> pipelines["q"][1].phases,
                                raised |-> made.raised]
           /\ pipelines' = IF made.raised THEN pipelines
                           ELSE [pipelines EXCEPT !["p"] = made.value]
    /\ UNCHANGED <<sensitivity_vars, result_vars, aggregator_vars, collection_vars,
                   pickle_vars,
                   pipeline_pc, phase_index, collection, func_calls>>

\* run_function is called on the pipeline p.
run_function_call ==
    /\ pipeline_pc = "idle"
    /\ pipelines["p"] # <<>>
    /\ pipeline_pc' = "running"
    /\ phase_index' = 0
    /\ collection' = ResultsCollection
    /\ func_calls' = <<>>
    /\ UNCHANGED <<sensitivity_vars, result_vars, aggregator_vars, collection_vars,
                   pickle_vars,
                   pipelines, pipeline_call>>

\* run_function calling func with a new, empty collection each time.
run_function_step_fresh_results ==
    /\ pipeline_pc = "running"
    /\ phase_index < Len(pipelines["p"][1].phases)
    /\ LET phase == pipelines["p"][1].phases[phase_index + 1]
           added == ResultsCollection_add(collection, phase.phase_name,
                                          func(phase, ResultsCollection))
       IN  /\ func_calls' = Append(func_calls,
                                   [phase |-> phase, results |-> <<>>])
           /\ collection' = added.value
           /\ pipeline_pc' = IF added.raised THEN "raised" ELSE "running"
    /\ phase_index' = phase_index + 1
    /\ UNCHANGED <<sensitivity_vars, result_vars, aggregator_vars, collection_vars,
                   pickle_vars,
                   pipelines, pipeline_call>>

\* One iteration of the loop of run_function.
run_function_step ==
    /\ pipeline_pc = "running"
    /\ phase_index < Len(pipelines["p"][1].phases)
    /\ LET phase == pipelines["p"][1].phases[phase_index + 1]
           added == ResultsCollection_add(collection, phase.phase_name,
                                          func(phase, collection))
       IN  /\ func_calls' = Append(func_calls,
                                   [phase |-> phase, results |-> collection.result_list])
           /\ collection' = added.value
           /\ pipeline_pc' = IF added.raised THEN "raised" ELSE "running"
    /\ phase_index' = phase_index + 1
    /\ UNCHANGED <<sensitivity_vars, result_vars, aggregator_vars, collection_vars,
                   pickle_vars,
                   pipelines, pipeline_call>>

\* The loop is over: run_function returns the collection.
run_function_return ==
    /\ pipeline_pc = "running"
    /\ phase_index = Len(pipelines["p"][1].phases)
    /\ pipeline_pc' = "returned"
    /\ UNCHANGED <<sensitivity_vars, result_vars, aggregator_vars, collection_vars,
                   pickle_vars,
                   pipelines, pipeline_call, phase_index, collection, func_calls>>

PipelineInit ==
    /\ SensitivityUnused
    /\ ResultUnused
    /\ PipelineUnused
    /\ CollectionUnused
    /\ PickleUnused
    /\ AggregatorUnused

PipelineNext ==
    \/ \E slot \in {"p", "q"} : \E phases \in PhaseSeqs : new_pipeline(slot, phases)
    \/ add_pipelines
    \/ run_function_call
    \/ run_function_step
    \/ run_function_return

PipelineSpec == PipelineInit /\ [][PipelineNext]_vars

----------------------------------------------------------------------------
(* Aggregator (autofit/aggregator.py) *)

\* Phase outputs: the attributes come from the metadata file of the phase,
\* which may lack a line.
PhaseOutputs ==
    {[pipeline |-> v] : v \in {"a", "b"}}
        \cup {[pipeline |-> v, phase |-> "a"] : v \in {"a", "b"}}

\* The comparisons a caller writes: aggregator.<attribute> == value or
\* aggregator.<attribute> != value.
Comparisons ==
    [attribute : {"pipeline", "phase"}, op : {"==", "!="}, value : {"a", "b"}]

EqualityPredicate(attribute, value) ==
    [kind |-> "equality", attribute |-> attribute, value |-> value]

NotPredicate(predicate) == [kind |-> "not", predicate |-> predicate]

\* AttributePredicate.__eq__
AttributePredicate_eq(attribute, value) == EqualityPredicate(attribute, value)

\* AttributePredicate.__ne__ without the inversion.
AttributePredicate_ne_not_inverted(attribute, value) ==
    AttributePredicate_eq(attribute, value)

\* AttributePredicate.__ne__
AttributePredicate_ne(attribute, value) ==
    NotPredicate(AttributePredicate_eq(attribute, value))

\* The predicate object a comparison evaluates to.
PredicateOf(comparison) ==
    IF comparison.op = "=="
    THEN AttributePredicate_eq(comparison.attribute, comparison.value)
    ELSE AttributePredicate_ne(comparison.attribute, comparison.value)

\* getattr(phase, attribute) of the predicate raises AttributeError.
RECURSIVE predicate_raises(_, _)
predicate_raises(predicate, phase) ==
    IF predicate.kind = "equality"
    THEN predicate.attribute \notin DOMAIN phase
    ELSE predicate_raises(predicate.predicate, phase)

\* EqualityPredicate.__call__ and NotPredicate.__call__
RECURSIVE predicate_call(_, _)
predicate_call(predicate, phase) ==
    IF predicate.kind = "equality"
    THEN phase[predicate.attribute] = predicate.value
    ELSE ~predicate_call(predicate.predicate, phase)

\* What the chain of lazy filters does with one phase: the predicates are
\* called in order until one rejects the phase or raises.
RECURSIVE chain_outcome(_, _)
chain_outcome(predicates, phase) ==
    IF predicates = <<>> THEN "keep"
    ELSE IF predicate_raises(Head(predicates), phase) THEN "raise"
    ELSE IF predicate_call(Head(predicates), phase)
         THEN chain_outcome(Tail(predicates), phase)
         ELSE "drop"

\* AbstractAggregator.filter: the phases of the new aggregator, or the
\* AttributeError raised while the list is built.  The phases are pulled in
\* order, so the first phase that raises ends the call.
AbstractAggregator_filter(phases, predicates) ==
    [raised |-> \E i \in DOMAIN phases : chain_outcome(predicates, phases[i]) = "raise",
     phases |-> SelectSeq(phases, LAMBDA phase : chain_outcome(predicates, phase) = "keep")]

\* aggregator.filter(*args), once on the aggregator.
aggregator_filter(args) ==
    /\ pc = "unused"
    /\ filter_call = <<>>
    /\ LET predicates == [k \in DOMAIN args |-> PredicateOf(args[k])]
           filtered == AbstractAggregator_filter(aggregator_phases, predicates)
       IN  filter_call' = << [args |-> args, original |-> aggregator_phases,
                              raised |-> filtered.raised,
                              phases |-> IF filtered.raised THEN <<>>
                                         ELSE filtered.phases] >>
    /\ UNCHANGED <<sensitivity_vars, result_vars, pipeline_vars, collection_vars,
                   pickle_vars, aggregator_phases>>

AggregatorInit ==
    /\ SensitivityUnused
    /\ ResultUnused
    /\ PipelineUnused
    /\ CollectionUnused
    /\ PickleUnused
    /\ aggregator_phases \in UNION {[1..n -> PhaseOutputs] : n \in 0..MaxAggregatorPhases}
    /\ filter_call = <<>>

AggregatorNext ==
    \E n \in 0..MaxPredicates : \E args \in [1..n -> Comparisons] : aggregator_filter(args)

AggregatorSpec == AggregatorInit /\ [][AggregatorNext]_vars

----------------------------------------------------------------------------
(* Specification of the submission of a run: the Jobs are made and handed over *)

SubmissionNext ==
    \/ run_call
    \/ run_raises_configuration_error
    \/ _make_jobs
    \/ run_jobs

SubmissionSpec == Init /\ [][SubmissionNext]_vars

----------------------------------------------------------------------------
(* Specification of a run on a well-behaved executor *)

\* The runs over a grid: make_lists accepts the step size.
LiveInit ==
    /\ Init
    /\ ~_lists_raises
    /\ GridSize <= LiveMaxJobs

\* The executor never fails as a whole.
LiveNext ==
    \/ run_call
    \/ _make_jobs
    \/ run_jobs
    \/ \E w \in DOMAIN processes : process_get(w)
    \/ \E w \in DOMAIN processes : perform_baseline(w)
    \/ \E w \in DOMAIN processes : perform_perturbed(w)
    \/ run_append
    \/ run_return

\* The steps of the executor drawing the Jobs from the generator.
Submission == _make_jobs \/ run_jobs

\* The steps of the workers.
Workers ==
    \E w \in DOMAIN processes :
        process_get(w) \/ perform_baseline(w) \/ perform_perturbed(w)

\* The steps of the loop of run.
Collection == run_append \/ run_return

\* The executor keeps drawing Jobs and keeps its workers running, every fit
\* terminates, and the loop of run keeps running.  Nothing is assumed about
\* which worker goes first.
LiveSpec ==
    /\ LiveInit
    /\ [][LiveNext]_vars
    /\ WF_vars(Submission)
    /\ WF_vars(Workers)
    /\ WF_vars(Collection)

----------------------------------------------------------------------------
(* Specification of a ResultsCollection used on its own *)

\* What a property returns for an empty collection.
None == [none |-> TRUE]

\* The phase names and the results handed to add.
PhaseNames == {"a", "b", "c"}

PhaseResults == {[value |-> 1], [value |-> 2]}

\* ResultsCollection.first
ResultsCollection_first(results_) ==
    IF Len(results_.result_list) > 0 THEN results_.result_list[1] ELSE None

\* ResultsCollection.last
ResultsCollection_last(results_) ==
    IF Len(results_.result_list) > 0
    THEN results_.result_list[Len(results_.result_list)]
    ELSE None

\* ResultsCollection.__len__
ResultsCollection_len(results_) == Cardinality(DOMAIN results_.result_dict)

\* ResultsCollection.from_phase: the result, or the PipelineException raised.
ResultsCollection_from_phase(results_, phase_name) ==
    IF phase_name \in DOMAIN results_.result_dict
    THEN [raised |-> FALSE, value |-> results_.result_dict[phase_name]]
    ELSE [raised |-> TRUE, value |-> None]

\* collection.add(phase_name, result)
collection_add(phase_name, result) ==
    /\ pc = "unused"
    /\ Len(add_calls) < MaxAdds
    /\ LET added == ResultsCollection_add(collection, phase_name, result)
       IN  /\ collection' = added.value
           /\ add_calls' = Append(add_calls,
                  [phase_name |-> phase_name, result |-> result,
                   raised |-> added.raised,
                   before |-> collection, after |-> added.value])
    /\ UNCHANGED <<sensitivity_vars, result_vars, aggregator_vars, pickle_vars,
                   pipelines, pipeline_call, pipeline_pc, phase_index, func_calls>>

CollectionInit ==
    /\ SensitivityUnused
    /\ ResultUnused
    /\ PipelineUnused
    /\ CollectionUnused
    /\ PickleUnused
    /\ AggregatorUnused

CollectionNext ==
    \E phase_name \in PhaseNames : \E result \in PhaseResults :
        collection_add(phase_name, result)

CollectionSpec == CollectionInit /\ [][CollectionNext]_vars

----------------------------------------------------------------------------
(* Specification of a phase saving its optimizer (autofit/tools/phase.py) *)

\* The optimizers: two are equal exactly when their settings are the same.
Optimizers == 1..MaxOptimizers

\* pickle.dumps and pickle.loads
pickle_dumps(optimizer) == [pickled |-> optimizer]

pickle_loads(bytes) == bytes.pickled

\* AbstractPhase.save_optimizer_for_phase: the file afterwards.
save_optimizer_for_phase == << pickle_dumps(phase_optimizer) >>

\* assert_optimizer_pickle_matches_for_phase without the comparison: it
\* never raises.
assert_optimizer_pickle_matches_for_phase_without_comparison == FALSE

\* AbstractPhase.assert_optimizer_pickle_matches_for_phase raises.
assert_optimizer_pickle_matches_for_phase_raises ==
    /\ pickle_file # <<>>
    /\ phase_optimizer # pickle_loads(pickle_file[1])

\* AbstractPhase.assert_and_save_pickle
assert_and_save_pickle ==
    /\ phase_optimizer \in Optimizers
    /\ pickle_call' = [optimizer |-> phase_optimizer, before |-> pickle_file,
                       raised |-> assert_optimizer_pickle_matches_for_phase_raises]
    /\ pickle_file' = IF assert_optimizer_pickle_matches_for_phase_raises
                      THEN pickle_file
                      ELSE save_optimizer_for_phase
    /\ UNCHANGED <<sensitivity_vars, result_vars, pipeline_vars, aggregator_vars,
                   collection_vars, phase_optimizer>>

\* The phase is made again, with the same or with other optimizer settings.
new_phase(optimizer) ==
    /\ phase_optimizer \in Optimizers
    /\ phase_optimizer' = optimizer
    /\ UNCHANGED <<sensitivity_vars, result_vars, pipeline_vars, aggregator_vars,
                   collection_vars, pickle_file, pickle_call>>

\* A phase, and the pickle an earlier run may have left.
PickleInit ==
    /\ SensitivityUnused
    /\ ResultUnused
    /\ PipelineUnused
    /\ CollectionUnused
    /\ AggregatorUnused
    /\ phase_optimizer \in Optimizers
    /\ pickle_file \in {<<>>} \cup { << pickle_dumps(o) >> : o \in Optimizers }
    /\ pickle_call = NoCall

PickleNext ==
    \/ assert_and_save_pickle
    \/ \E optimizer \in Optimizers : new_phase(optimizer)

PickleSpec == PickleInit /\ [][PickleNext]_vars

----------------------------------------------------------------------------
(* Properties *)

\* What Job.perform of the j-th Job built yields when it runs on its own: the
\* executor's failure marker if one of its fits fails, else its JobResult.
perform(j) ==
    LET job == jobs[j]
    IN  IF Fails(j, "baseline") \/ Fails(j, "perturbed")
        THEN FailureMarker
        ELSE JobResult(
                 Fit(job.search, [model |-> job.model], job.analysis),
                 Fit(job.perturbed_search,
                     [perturbation |-> job.perturbation_model, model |-> job.model],
                     job.analysis))

\* The output namespace a search writes to.
Namespace(paths) == <<paths.path_prefix, paths.name, paths.tag>>

LabelCollision ==
    /\ ~_lists_raises
    /\ \E i, j \in 1..Len(_labels) : i # j /\ _labels[i] = _labels[j]

RECURSIVE Power(_, _)
Power(b, e) == IF e = 0 THEN 1 ELSE b * Power(b, e - 1)

\* a precedes b lexicographically, the first component most significant.
LexLess(a, b) ==
    \E d \in 1..Len(a) :
        /\ a[d] < b[d]
        /\ \A e \in 1..(d - 1) : a[e] = b[e]

\* C1: when run returns, the element at index i of the returned sequence is
\* the result of the Job built from the i-th grid coordinate, whatever the
\* order in which the executor completed the Jobs.
C1_ResultsPositional ==
    (pc = "returned" /\ fit_failure = NoFailure) =>
        \A i \in 1..Len(results) : results[i] = perform(i)

\* C2: the four output namespaces of any two Jobs built by one run (the
\* baseline and the perturbed search of each) are pairwise disjoint.
C2_NamespacesDisjoint ==
    \A i, j \in 1..Len(jobs) :
        i # j =>
            Cardinality({Namespace(jobs[i].search), Namespace(jobs[i].perturbed_search),
                         Namespace(jobs[j].search), Namespace(jobs[j].perturbed_search)}) = 4

\* C3: when one Job's fit fails, run returns one entry per grid coordinate,
\* the failure marker at the failed Job's grid index and the normal
\* JobResult at every other index.
C3_FailureAtGridIndex ==
    (pc = "returned" /\ fit_failure # NoFailure) =>
        /\ Len(results) = Len(_lists)
        /\ \A i \in 1..Len(results) :
              /\ (results[i] = FailureMarker) <=> (fit_failure.job = i)
              /\ results[i] = perform(i)

\* C4: when every fit succeeds, run returns exactly one JobResult per grid
\* coordinate: as many results as coordinates, every Job executed exactly
\* once, and every Job's result present as often as Jobs produce it.
C4_OneResultPerCoordinate ==
    fit_failure = NoFailure =>
        /\ \A j \in DOMAIN executed : Len(executed[j]) <= 1
        /\ pc = "returned" =>
              /\ Len(results) = Len(_lists)
              /\ \A j \in 1..Len(_lists) :
                    /\ Len(executed[j]) = 1
                    /\ perform(j) # FailureMarker
                    /\ Cardinality({i \in 1..Len(results) : results[i] = perform(j)})
                         = Cardinality({k \in 1..Len(_lists) : perform(k) = perform(j)})

C4_Witness ==
    /\ pc = "returned"
    /\ fit_failure = NoFailure
    /\ number_of_cores = 2
    /\ Len(results) = 4
    /\ ~LabelCollision

\* C5: a run configured with fewer than 2 workers is rejected before any
\* Job is constructed, dispatched or executed.
C5_SingleCoreRejected ==
    number_of_cores < 2 =>
        /\ jobs = <<>>
        /\ pc \notin {"collecting", "returned"}

\* C6: when two distinct grid coordinates yield the same label, the run
\* fails instead of building two Jobs that share an output namespace.
C6_CollisionRejected ==
    LabelCollision =>
        /\ pc \notin {"collecting", "returned"}
        /\ ~ \E i, j \in 1..Len(jobs) :
                i # j /\ jobs[i].search.name = jobs[j].search.name

C8_ReturnsAfterAllReported ==
    pc = "returned" =>
        /\ Len(jobs) = Len(_lists)
        /\ job_queue = <<>>
        /\ \A w \in DOMAIN processes : processes[w].at = "idle"
        /\ \A j \in 1..Len(jobs) : Len(executed[j]) >= 1

C8_Witness ==
    /\ pc = "returned"
    /\ number_of_cores >= 2
    /\ Len(jobs) >= 3

\* C9: with D dimensions and the uniform step size s, the grid has exactly
\* floor(1/s)^D coordinates, each of length D with every component one of
\* s, 2s, ..., floor(1/s)*s.
C9_GridCount ==
    (lists_out.read /\ step_size.kind = "float") =>
        LET D == prior_count(perturbation_model)
            s == step_size.value
            n == Scale \div s
        IN  /\ Len(lists_out.value) = Power(n, D)
            /\ \A i \in 1..Len(lists_out.value) :
                  /\ Len(lists_out.value[i]) = D
                  /\ \A d \in 1..D :
                        /\ lists_out.value[i][d] \in {k * s : k \in 1..n}
                        /\ lists_out.value[i][d] # 0

C9_Witness ==
    /\ lists_out.read
    /\ step_size.kind = "float"
    /\ prior_count(perturbation_model) = 3
    /\ Scale \div step_size.value >= 2
    /\ step_size.value * (Scale \div step_size.value) = Scale
    /\ Len(lists_out.value) = 8

\* C10: the grid coordinates come in lexicographic order, the first
\* dimension varying slowest; with D = 2 and the uniform step 0.5 they are
\* (0.5,0.5), (0.5,1.0), (1.0,0.5), (1.0,1.0) in that order.
C10_GridOrder ==
    lists_out.read =>
        /\ \A i, j \in 1..Len(lists_out.value) :
              i < j => LexLess(lists_out.value[i], lists_out.value[j])
        /\ (/\ prior_count(perturbation_model) = 2
            /\ step_size.kind = "float"
            /\ 2 * step_size.value = Scale) =>
              LET half == step_size.value
              IN  lists_out.value = << <<half, half>>, <<half, Scale>>,
                                       <<Scale, half>>, <<Scale, Scale>> >>

C10_Witness ==
    /\ lists_out.read
    /\ prior_count(perturbation_model) = 2
    /\ step_size.kind = "float"
    /\ 2 * step_size.value = Scale
    /\ Len(lists_out.value) = 4

\* C11: with one step size per dimension the grid has as many coordinates
\* as the product over the dimensions of floor(1/s_d), and a dimension whose
\* step size is 1 has the value 1 in every coordinate.
RECURSIVE StepProduct(_)
StepProduct(steps) ==
    IF Len(steps) = 0 THEN 1 ELSE (Scale \div steps[1]) * StepProduct(Tail(steps))

C11_PerDimensionSteps ==
    (lists_out.read /\ step_size.kind = "tuple") =>
        /\ Len(lists_out.value) = StepProduct(step_size.value)
        /\ \A d \in 1..Len(step_size.value) :
              step_size.value[d] = Scale =>
                  \A i \in 1..Len(lists_out.value) : lists_out.value[i][d] = Scale

C11_Witness ==
    /\ lists_out.read
    /\ step_size.kind = "tuple"
    /\ Len(step_size.value) = 3
    /\ step_size.value[2] = Scale
    /\ step_size.value[1] # step_size.value[3]
    /\ Len(lists_out.value) = 8

\* C12: a step size that is <= 0 or > 1 in some dimension makes the run fail
\* before any Job is constructed: no image is synthesized, no Job is built,
\* nothing is dispatched and run does not return a grid, empty or not.
C12_InvalidStepFailsFast ==
    _lists_raises =>
        /\ jobs = <<>>
        /\ image_calls = <<>>
        /\ pc \in {"constructed", "submitting", "raised"}
        /\ pc = "raised" => error = "configuration"

C12_Witness ==
    /\ pc = "raised"
    /\ error = "configuration"
    /\ step_size.kind = "tuple"
    /\ \E d \in 1..Len(step_size.value) : StepValid(step_size.value[d])
    /\ jobs = <<>>

\* C13: the label of a grid coordinate is the underscore-join, in declared
\* dimension order, of "{path}_{physical value}" tokens, the physical value
\* being the one the model's instance has in that dimension; coordinates
\* with different physical values have different labels.
C13_LabelsFromPhysicalValues ==
    labels_out.read =>
        LET lists == _lists
            D == prior_count(perturbation_model)
            physical(i) == instance_from_unit_vector(perturbation_model, lists[i])
        IN  /\ Len(labels_out.value) = Len(lists)
            /\ \A i \in 1..Len(lists) :
                  labels_out.value[i] =
                      Join([d \in 1..D |->
                              PathNames[d] \o "_" \o FormatValue(physical(i)[d])])
            /\ \A i, j \in 1..Len(lists) :
                  physical(i) # physical(j) => labels_out.value[i] # labels_out.value[j]
            /\ (/\ D = 2
                /\ step_size = [kind |-> "float", value |-> Scale \div 2]
                /\ 2 * (Scale \div 2) = Scale
                /\ perturbation_model.prior_tuples[1].prior = [lower |-> 0, upper |-> 2]
                /\ perturbation_model.prior_tuples[2].prior = [lower |-> 1, upper |-> 1]) =>
                  labels_out.value = <<"x_1.0_y_1.0", "x_1.0_y_1.0",
                                       "x_2.0_y_1.0", "x_2.0_y_1.0">>

C13_Witness ==
    /\ labels_out.read
    /\ prior_count(perturbation_model) = 2
    /\ step_size = [kind |-> "float", value |-> Scale \div 2]
    /\ perturbation_model.prior_tuples[1].prior = [lower |-> 0, upper |-> 2]
    /\ perturbation_model.prior_tuples[2].prior = [lower |-> 1, upper |-> 1]
    /\ labels_out.value[3] = "x_2.0_y_1.0"

\* C14: every JobResult a Job produces holds, as result, the fit of the
\* Job's baseline search against a composite of the base model alone and, as
\* perturbed_result, the fit of its perturbed search against a composite of
\* the perturbation model and the base model, both with the Job's analysis.
C14_PerformFitsBoth ==
    \A j \in DOMAIN executed :
        \A k \in 1..Len(executed[j]) :
            LET outcome == executed[j][k]
                job == jobs[j]
            IN  outcome # FailureMarker =>
                    /\ outcome.result.search = job.search
                    /\ DOMAIN outcome.result.model = {"model"}
                    /\ outcome.result.model.model = job.model
                    /\ outcome.result.analysis = job.analysis
                    /\ outcome.perturbed_result.search = job.perturbed_search
                    /\ DOMAIN outcome.perturbed_result.model = {"perturbation", "model"}
                    /\ outcome.perturbed_result.model.perturbation = job.perturbation_model
                    /\ outcome.perturbed_result.model.model = job.model
                    /\ outcome.perturbed_result.analysis = job.analysis

C14_Witness ==
    \E j \in DOMAIN executed :
        /\ j >= 2
        /\ Len(executed[j]) = 1
        /\ executed[j][1] # FailureMarker
        /\ executed[j][1].result.search # executed[j][1].perturbed_result.search

\* C15: a Job one of whose fits fails produces no JobResult: the only
\* outcome of its perform is the failure, never a JobResult with one fit.
C15_FailedFitFailsJob ==
    \A j \in DOMAIN executed :
        \A k \in 1..Len(executed[j]) :
            /\ (Fails(j, "baseline") \/ Fails(j, "perturbed")) =>
                  executed[j][k] = FailureMarker
            /\ executed[j][k] # FailureMarker =>
                  /\ DOMAIN executed[j][k].result = {"search", "model", "analysis"}
                  /\ DOMAIN executed[j][k].perturbed_result = {"search", "model", "analysis"}

C15_Witness ==
    \E j \in DOMAIN executed :
        /\ Fails(j, "perturbed")
        /\ executed[j] = <<FailureMarker>>
        /\ Len(results) >= 2

\* C16: the log_likelihood_difference of a JobResult is the log likelihood
\* of its perturbed fit minus that of its baseline fit, not the reverse.
C16_DifferencePerturbedMinusBaseline ==
    difference_out # <<>> =>
        LET baseline == job_result[1].result.log_likelihood
            perturbed == job_result[1].perturbed_result.log_likelihood
        IN  /\ difference_out[1] + baseline = perturbed
            /\ (difference_out[1] > 0) <=> (perturbed > baseline)
            /\ (baseline = 0 - 3 /\ perturbed = 2) => difference_out[1] = 5

C16_Witness ==
    /\ difference_out = <<5>>
    /\ job_result[1].result.log_likelihood = 0 - 3
    /\ job_result[1].perturbed_result.log_likelihood = 2

\* C17: once the executor has failed as a whole, run ends by raising: it
\* has not returned a result sequence, and what it met is the executor's error.
C17_ExecutorFailureRaises ==
    /\ error = "executor" => pc = "raised"
    /\ pc = "returned" => error = "none"

C17_Witness ==
    /\ error = "executor"
    /\ pc = "raised"
    /\ Len(results) >= 1
    /\ Len(results) < Len(jobs)

\* C18: no pipeline holds two phases with the same phase_name: constructing
\* one from phases with a repeated name raises, composing two pipelines that
\* share a name raises, and a composition that succeeds has the phases of
\* the left pipeline followed by those of the right one.
SharePhaseName(left, right) ==
    \E i \in DOMAIN left : \E j \in DOMAIN right :
        left[i].phase_name = right[j].phase_name

RepeatsPhaseName(phases) ==
    \E i, j \in DOMAIN phases : i # j /\ phases[i].phase_name = phases[j].phase_name

C18_UniquePhaseNames ==
    /\ \A slot \in {"p", "q"} :
          pipelines[slot] # <<>> => ~RepeatsPhaseName(pipelines[slot][1].phases)
    /\ pipeline_call.op = "init" =>
          /\ pipeline_call.raised <=> RepeatsPhaseName(pipeline_call.left)
    /\ pipeline_call.op = "add" =>
          /\ pipeline_call.raised <=> SharePhaseName(pipeline_call.left, pipeline_call.right)
          /\ ~pipeline_call.raised =>
                pipelines["p"][1].phases = pipeline_call.left \o pipeline_call.right

C18_Witness ==
    /\ pipeline_call.op = "add"
    /\ ~pipeline_call.raised
    /\ Len(pipeline_call.left) = 2
    /\ Len(pipeline_call.right) = 1
    /\ pipeline_pc = "idle"

\* C19: run_function runs the phases one after the other in declaration
\* order: the i-th call of func is for the i-th phase and sees exactly the
\* results of the phases before it, in order; the collection returned holds
\* one result per phase, the i-th being that of the i-th phase.
C19_PhasesRunInOrder ==
    pipeline_pc \in {"running", "returned"} =>
        LET phases == pipelines["p"][1].phases
        IN  /\ Len(func_calls) = phase_index
            /\ Len(collection.result_list) = phase_index
            /\ phase_index <= Len(phases)
            /\ \A i \in 1..Len(func_calls) :
                  /\ func_calls[i].phase = phases[i]
                  /\ func_calls[i].results = SubSeq(collection.result_list, 1, i - 1)
                  /\ collection.result_list[i] = [phase |-> phases[i], seen |-> i - 1]
            /\ pipeline_pc = "returned" =>
                  /\ Len(collection.result_list) = Len(phases)
                  /\ Cardinality(DOMAIN collection.result_dict) = Len(phases)

C19_Witness ==
    /\ pipeline_pc = "returned"
    /\ Len(pipelines["p"][1].phases) = 3
    /\ Len(func_calls) = 3
    /\ Len(func_calls[3].results) = 2

\* C20: filter returns a new aggregator whose phases are exactly the phases
\* of the original that satisfy every predicate given, in their original
\* order, and leaves the original as it was; a != predicate selects exactly
\* the phases the == predicate on the same attribute and value rejects.
Satisfies(comparison, phase) ==
    /\ comparison.attribute \in DOMAIN phase
    /\ IF comparison.op = "=="
       THEN phase[comparison.attribute] = comparison.value
       ELSE phase[comparison.attribute] # comparison.value

Kept(call) ==
    {i \in DOMAIN call.original :
        \A k \in DOMAIN call.args : Satisfies(call.args[k], call.original[i])}

Nth(indices, r) ==
    CHOOSE i \in indices : Cardinality({j \in indices : j < i}) = r - 1

C20_FilterSelectsSatisfying ==
    filter_call # <<>> =>
        LET call == filter_call[1]
            Applicable ==
                \A i \in DOMAIN call.original : \A k \in DOMAIN call.args :
                    call.args[k].attribute \in DOMAIN call.original[i]
        IN  /\ aggregator_phases = call.original
            /\ Applicable => ~call.raised
            /\ ~call.raised =>
                  /\ Len(call.phases) = Cardinality(Kept(call))
                  /\ \A r \in DOMAIN call.phases :
                        call.phases[r] = call.original[Nth(Kept(call), r)]
            /\ (~call.raised /\ Len(call.args) = 1 /\ call.args[1].op = "!=") =>
                  \A i \in DOMAIN call.original :
                      (\E r \in DOMAIN call.phases : call.phases[r] = call.original[i])
                          <=> ~(call.original[i][call.args[1].attribute]
                                    = call.args[1].value)

C20_Witness ==
    /\ filter_call # <<>>
    /\ ~filter_call[1].raised
    /\ Len(filter_call[1].args) = 2
    /\ filter_call[1].args[1].op = "!="
    /\ filter_call[1].args[2].op = "=="
    /\ Len(filter_call[1].original) = 3
    /\ Len(filter_call[1].phases) = 2
    /\ filter_call[1].phases # SubSeq(filter_call[1].original, 1, 2)

\* C21: on an executor that executes every submitted Job once and drains
\* every result, with fits that terminate, a run that has been called over
\* a grid eventually returns.
C21_RunEventuallyReturns == (pc = "submitting") ~> (pc = "returned")

C21_Witness ==
    /\ pc = "returned"
    /\ Len(jobs) >= 2
    /\ Len(results) = Len(jobs)
    /\ fit_failure # NoFailure
    /\ number_of_cores = MaxCores

\* C22: a run is one pass over a closed batch: every Job is made once and
\* handed to the executor once, and is never submitted again, also after a
\* Job has failed; when run returns every Job has been executed once.
TimesHandled(j) ==
    Cardinality({k \in DOMAIN job_queue : job_queue[k] = j})
        + Cardinality({w \in DOMAIN processes : processes[w].job = j})
        + Len(executed[j])

C22_ClosedBatchSubmittedOnce ==
    /\ Len(jobs) <= GridSize
    /\ pc \in {"constructed", "submitting"} =>
          \A j \in DOMAIN executed : TimesHandled(j) = 0
    /\ pc \in {"collecting", "returned"} =>
          /\ Len(jobs) = GridSize
          /\ \A j \in DOMAIN executed : TimesHandled(j) = 1
    /\ pc = "returned" =>
          \A j \in DOMAIN executed : Len(executed[j]) = 1

C22_Witness ==
    /\ pc = "returned"
    /\ number_of_cores = 1
    /\ Len(jobs) >= 2
    /\ fit_failure.job = 1
    /\ results[1] = FailureMarker
    /\ Len(executed[1]) = 1
    /\ Len(executed[2]) = 1

\* C23: in every Job the baseline search is named
\* "{name}/{tag}/{non_linear_tag}/{label}" after the template's paths and the
\* label of the Job's coordinate, and the perturbed search has the same
\* name, path_prefix and remove_files and the baseline tag followed by
\* "[perturbed]": the two namespaces of a Job differ.
C23_PerturbedDiscriminator ==
    LET labels == IF jobs = <<>> THEN <<>> ELSE _labels
    IN
    \A i \in DOMAIN jobs :
        LET baseline == jobs[i].search
            perturbed == jobs[i].perturbed_search
        IN  /\ baseline.name = search.name \o "/" \o search.tag \o "/" \o
                               search.non_linear_tag \o "/" \o labels[i]
            /\ baseline.tag = search.tag
            /\ baseline.path_prefix = search.path_prefix
            /\ baseline.remove_files = search.remove_files
            /\ perturbed.name = baseline.name
            /\ perturbed.path_prefix = baseline.path_prefix
            /\ perturbed.remove_files = baseline.remove_files
            /\ perturbed.tag = baseline.tag \o "[perturbed]"
            /\ Namespace(baseline) # Namespace(perturbed)

C23_Witness ==
    /\ pc = "collecting"
    /\ Len(jobs) >= 2
    /\ jobs[2].search.name = "s/t/nl/x_1.0"
    /\ jobs[2].perturbed_search.tag = "t[perturbed]"

\* C24: the i-th Job of a run belongs to the i-th grid coordinate: the
\* observation of its analysis was synthesized from the perturbation
\* instance of coordinate i, and the name of its search ends with the label
\* of coordinate i.
C24_JobMatchesCoordinate ==
    LET lists == IF jobs = <<>> THEN <<>> ELSE _lists
    IN
    \A i \in DOMAIN jobs :
        LET coordinate == lists[i]
        IN  /\ jobs[i].analysis.image.image_of.perturbation =
                  instance_from_unit_vector(perturbation_model, coordinate)
            /\ jobs[i].search.name =
                  search.name \o "/" \o search.tag \o "/" \o
                  search.non_linear_tag \o "/" \o label_for(coordinate)
            /\ jobs[i].perturbed_search.name = jobs[i].search.name

C24_Witness ==
    /\ pc = "submitting"
    /\ prior_count(perturbation_model) = 2
    /\ Len(jobs) = 4
    /\ jobs[2].analysis.image.image_of.perturbation # jobs[3].analysis.image.image_of.perturbation
    /\ jobs[2].search.name # jobs[3].search.name

\* C25: inside Job.perform the baseline fit is over before the perturbed fit
\* starts: the fits a Job invokes are the baseline fit and then, only if the
\* baseline fit did not fail, the perturbed fit.
C25_BaselineBeforePerturbed ==
    /\ \A j \in DOMAIN fits :
          /\ fits[j] \in {<<>>, <<"baseline">>, <<"baseline", "perturbed">>}
          /\ Fails(j, "baseline") => fits[j] \in {<<>>, <<"baseline">>}
    /\ \A w \in DOMAIN processes :
          processes[w].at = "perturbed" =>
              /\ fits[processes[w].job] = <<"baseline">>
              /\ processes[w].result # <<>>
              /\ processes[w].result[1] # FailureMarker

C25_Witness ==
    /\ fit_failure = [job |-> 1, fit |-> "baseline"]
    /\ Len(jobs) >= 2
    /\ pc = "returned"
    /\ fits[1] = <<"baseline">>
    /\ fits[2] = <<"baseline", "perturbed">>

\* C26: during a run image_function is invoked once per grid coordinate, in
\* grid order, the i-th time on the composite instance made of the base
\* instance and the perturbation instance of coordinate i.
C26_OneImagePerCoordinate ==
    /\ Len(image_calls) = Len(jobs)
    /\ Len(image_calls) <= GridSize
    /\ pc \in {"collecting", "returned"} => Len(image_calls) = GridSize
    /\ LET lists == IF image_calls = <<>> THEN <<>> ELSE _lists
       IN  \A i \in DOMAIN image_calls :
               image_calls[i] =
                   [model |-> "instance",
                    perturbation |-> instance_from_unit_vector(perturbation_model, lists[i])]

C26_Witness ==
    /\ pc = "returned"
    /\ prior_count(perturbation_model) = 2
    /\ Len(image_calls) = 4
    /\ \A i, j \in 1..4 : i # j => image_calls[i] # image_calls[j]

\* C27: after any sequence of add calls the collection holds the results of
\* the adds that succeeded, in call order: len is their number, first the
\* earliest and last the latest, from_phase gives the result added under a
\* name and raises for a name never added; an add under a name already
\* present raises and leaves the collection as it was.
SuccessfulAdds == SelectSeq(add_calls, LAMBDA call : ~call.raised)

C27_CollectionHoldsSuccessfulAdds ==
    LET added == SuccessfulAdds
    IN  /\ collection.result_list = [i \in 1..Len(added) |-> added[i].result]
        /\ ResultsCollection_len(collection) = Len(added)
        /\ added # <<>> =>
              /\ ResultsCollection_first(collection) = added[1].result
              /\ ResultsCollection_last(collection) = added[Len(added)].result
        /\ \A phase_name \in PhaseNames :
              LET found == ResultsCollection_from_phase(collection, phase_name)
                  under == {i \in DOMAIN added : added[i].phase_name = phase_name}
              IN  /\ found.raised <=> under = {}
                  /\ \A i \in under : found.value = added[i].result
        /\ \A k \in DOMAIN add_calls :
              /\ add_calls[k].raised <=>
                    \E h \in 1..(k - 1) :
                        /\ ~add_calls[h].raised
                        /\ add_calls[h].phase_name = add_calls[k].phase_name
              /\ add_calls[k].raised => add_calls[k].after = add_calls[k].before

C27_Witness ==
    /\ Len(add_calls) = 3
    /\ ~add_calls[1].raised
    /\ add_calls[2].raised
    /\ add_calls[2].result # add_calls[1].result
    /\ ~add_calls[3].raised
    /\ Len(collection.result_list) = 2

\* C28: assert_and_save_pickle never overwrites a saved optimizer that does
\* not match: when a saved optimizer exists and differs from the phase's,
\* the call raises and the file is as before; when none exists or it is
\* equal, the file afterwards holds the phase's optimizer.
C28_MismatchNeverOverwritten ==
    pickle_call # NoCall =>
        LET mismatch ==
                /\ pickle_call.before # <<>>
                /\ pickle_call.before[1].pickled # pickle_call.optimizer
        IN  /\ pickle_call.raised <=> mismatch
            /\ mismatch => pickle_file = pickle_call.before
            /\ ~mismatch =>
                  /\ pickle_file # <<>>
                  /\ pickle_loads(pickle_file[1]) = pickle_call.optimizer

C28_Witness ==
    /\ pickle_call.raised
    /\ pickle_call.before = << [pickled |-> 1] >>
    /\ pickle_call.optimizer = 2
    /\ pickle_file = << [pickled |-> 1] >>
    /\ phase_optimizer = 2

====
